---- MODULE Spec2Model ----
(***************************************************************************)
(* Model of src/src/App.tsx: the fetchStravaData effect of App (athlete,   *)
(* stats and paginated activity requests, the day index), the render       *)
(* branch of App, and TrainingTracker (week generation, goal formula, week *)
(* aggregation).                                                           *)
(*                                                                         *)
(* Representation choices:                                                 *)
(*  - A JS Date is an instant [day, ms]: whole days since 1970-01-01 UTC   *)
(*    and milliseconds within that day (the product does not fit the       *)
(*    model checker's integers, so the two parts are kept apart).  The     *)
(*    local-time accessors of Date go through the zone offset tz (minutes  *)
(*    east of UTC, fixed during a run).                                    *)
(*  - An ISO-8601 start_date string "YYYY-MM-DDThh:mm:ss.sssZ" is the      *)
(*    record [date |-> <<y, m, d>>, time |-> ms of day]: the part before   *)
(*    the 'T' and the part after it.                                       *)
(*  - distance is in tenths of a metre, so that 16093.4 m is 160934.       *)
(*  - miles are exact decimals in units of 10^-10 mile, written in base    *)
(*    10^6 as [hi, lo] (value hi * 10^6 + lo).  The code computes in IEEE  *)
(*    doubles; the model is exact.                                         *)
(*  - the emoji U+1F3C1 of the source's phase label is written             *)
(*    "<U+1F3C1>" because the module is ASCII.                             *)
(***************************************************************************)
EXTENDS Integers, Sequences, FiniteSets, TLC

VARIABLES
    tz,                 \* zone offset of the browser, minutes east of UTC
    accessToken,        \* import.meta.env.VITE_STRAVA_ACCESS_TOKEN is set
    pc,                 \* position of fetchStravaData
    loading, error, athleteName, miles, runCount, activityDays, allActivities,
    athleteId,          \* athlete.id, local of fetchStravaData
    fetchedActivities,  \* local of fetchStravaData
    page,               \* local of fetchStravaData
    requests,           \* every request issued so far, in order
    responses,          \* the outcome of each completed request, in order
    tpc,                \* position of TrainingTracker's week loop
    weekStart, weekNumber, weeks

vars == <<tz, accessToken, pc, loading, error, athleteName, miles, runCount,
          activityDays, allActivities, athleteId, fetchedActivities, page,
          requests, responses, tpc, weekStart, weekNumber, weeks>>

fetchVars == <<pc, loading, error, athleteName, miles, runCount, activityDays,
               allActivities, athleteId, fetchedActivities, page, requests,
               responses>>

trackerVars == <<tpc, weekStart, weekNumber, weeks>>

(***************************************************************************)
(* Bounds of the model.                                                    *)
(***************************************************************************)
MaxPages == 2          \* the server holds at most MaxPages pages of activities
MaxWeekNum == 30       \* week numbers the goal formula is tabulated for

Null == "null"

(***************************************************************************)
(* Program constants.                                                      *)
(***************************************************************************)
perPage == 200
MsPerDay == 86400000
MsPerMinute == 60000
EndOfDayMs == 86399999          \* setHours(23, 59, 59, 999)
MilesFactor == 621371           \* 0.000621371, in units of 10^-9
MilesBase == 1000000
GoalUnit == 100000              \* one mile, in units of the hi part

\* input sets: zone offsets, lengths of short pages, pool positions a page starts at
TZOffsets == {-480, 0, 60}
ShortLens == {1, 3, perPage - 1}
PageStarts == {0, 2}

(***************************************************************************)
(* Date: the built-in calendar arithmetic the code relies on.              *)
(***************************************************************************)
DaysFromCivil(y, m, d) ==
    LET yy  == IF m <= 2 THEN y - 1 ELSE y
        era == yy \div 400
        yoe == yy - era * 400
        mp  == IF m > 2 THEN m - 3 ELSE m + 9
        doy == (153 * mp + 2) \div 5 + d - 1
        doe == yoe * 365 + yoe \div 4 - yoe \div 100 + doy
    IN  era * 146097 + doe - 719468

CivilFromDays(z) ==
    LET zz  == z + 719468
        era == zz \div 146097
        doe == zz - era * 146097
        yoe == (doe - doe \div 1460 + doe \div 36524 - doe \div 146096) \div 365
        doy == doe - (365 * yoe + yoe \div 4 - yoe \div 100)
        mp  == (5 * doy + 2) \div 153
        d   == doy - (153 * mp + 2) \div 5 + 1
        m   == IF mp < 10 THEN mp + 3 ELSE mp - 9
        y   == yoe + era * 400 + (IF m <= 2 THEN 1 ELSE 0)
    IN  <<y, m, d>>

Norm(day, ms) == [day |-> day + ms \div MsPerDay, ms |-> ms % MsPerDay]

ToLocal(t, zone) == Norm(t.day, t.ms + zone * MsPerMinute)

FromLocal(l, zone) == Norm(l.day, l.ms - zone * MsPerMinute)

\* new Date(year, monthIndex, day): local midnight
NewDate(y, monthIndex, d, zone) ==
    FromLocal([day |-> DaysFromCivil(y, monthIndex + 1, d), ms |-> 0], zone)

\* Date.prototype.getDay: 0 = Sunday
getDay(t, zone) == (ToLocal(t, zone).day + 4) % 7

\* Date.prototype.getDate: day of the month
getDate(t, zone) == CivilFromDays(ToLocal(t, zone).day)[3]

\* Date.prototype.setDate(n): day n of the current month, rolling over
setDate(t, n, zone) ==
    LET l == ToLocal(t, zone)
    IN  FromLocal([day |-> l.day - getDate(t, zone) + n, ms |-> l.ms], zone)

\* Date.prototype.setHours(23, 59, 59, 999)
setHoursEndOfDay(t, zone) ==
    FromLocal([day |-> ToLocal(t, zone).day, ms |-> EndOfDayMs], zone)

\* new Date(isoString): the string is UTC ("...Z")
ParseISO(s) ==
    [day |-> DaysFromCivil(s.date[1], s.date[2], s.date[3]), ms |-> s.time]

\* the ISO string of an instant, as the API reports it
ToISO(t) == [date |-> CivilFromDays(t.day), time |-> t.ms]

\* a <= b on Dates
DateLE(a, b) == a.day < b.day \/ (a.day = b.day /\ a.ms <= b.ms)

DateLT(a, b) == a.day < b.day \/ (a.day = b.day /\ a.ms < b.ms)

(***************************************************************************)
(* Inputs: what the API may answer.                                        *)
(***************************************************************************)
\* the instant that is local day PlanDay0 + dayOffset, ms into that day
PlanDay0 == DaysFromCivil(2025, 12, 1)

LocalAt(dayOffset, ms, zone) ==
    FromLocal([day |-> PlanDay0 + dayOffset, ms |-> ms], zone)

Act(type, dayOffset, ms, distance, zone) ==
    [type |-> type, start_date |-> ToISO(LocalAt(dayOffset, ms, zone)),
     distance |-> distance]

\* the activities the server draws its pages from
Pool(zone) ==
    << Act("Run",  0,   0,          160934, zone),
       Act("Ride", 2,   43200000,   300000, zone),
       Act("Run",  6,   EndOfDayMs, 50000,  zone),
       Act("Run",  7,   0,          80467,  zone),
       Act("Run",  -1,  EndOfDayMs, 100000, zone),
       Act("Walk", 2,   43201000,   20000,  zone),
       Act("Run",  153, EndOfDayMs, 42195,  zone),
       Act("Run",  154, 0,          30000,  zone) >>

PoolLen == Len(Pool(0))

\* the body of page p: len activities, taken cyclically from the pool
PageBody(start, len, p, zone) ==
    [i \in 1..len |->
        [id |-> (p - 1) * perPage + i] @@ Pool(zone)[((start + i - 1) % PoolLen) + 1]]

Athletes == {[id |-> 7, firstname |-> "Kristie"]}

\* stats.ytd_run_totals
StatsTotals == {[distance |-> 8046720, count |-> 57]}

FetchOutcomes == {"reject", "notOk", "ok"}

(***************************************************************************)
(* Unit conversion: distance * 0.000621371 (App.tsx:97, 280).              *)
(***************************************************************************)
MilesOf(distance) ==
    LET d2  == distance \div 1000000
        d1  == (distance \div 1000) % 1000
        d0  == distance % 1000
        X   == d1 * MilesFactor
        Y   == d0 * MilesFactor
        low == (X % 1000) * 1000 + Y
    IN  [hi |-> d2 * MilesFactor + X \div 1000 + low \div MilesBase,
         lo |-> low % MilesBase]

AddMiles(a, b) ==
    [hi |-> a.hi + b.hi + (a.lo + b.lo) \div MilesBase,
     lo |-> (a.lo + b.lo) % MilesBase]

ZeroMiles == [hi |-> 0, lo |-> 0]

(***************************************************************************)
(* The day index (App.tsx:134-152).  The Map is the sequence of its        *)
(* entries in insertion order.                                             *)
(***************************************************************************)
\* activity.start_date.split('T')[0]
DateKey(activity) == activity.start_date.date

\* daysMap.get(date): the position of the entry, 0 when absent
MapIndex(map, date) ==
    IF \E i \in 1..Len(map) : map[i].date = date
    THEN CHOOSE i \in 1..Len(map) : map[i].date = date
    ELSE 0

Includes(seq, x) == \E i \in 1..Len(seq) : seq[i] = x

\* GroupStep without the includes test: every activity pushes its type
GroupStepPushAlways(map, activity) ==
    LET date == DateKey(activity)
        k    == MapIndex(map, date)
    IN  IF k # 0
        THEN [map EXCEPT ![k] =
                [date  |-> @.date,
                 count |-> @.count + 1,
                 types |-> Append(@.types, activity.type)]]
        ELSE Append(map, [date |-> date, count |-> 1, types |-> <<activity.type>>])

\* the body of the forEach callback
GroupStep(map, activity) ==
    LET date == DateKey(activity)
        k    == MapIndex(map, date)
    IN  IF k # 0
        THEN [map EXCEPT ![k] =
                [date  |-> @.date,
                 count |-> @.count + 1,
                 types |-> IF ~Includes(@.types, activity.type)
                           THEN Append(@.types, activity.type)
                           ELSE @.types]]
        ELSE Append(map, [date |-> date, count |-> 1, types |-> <<activity.type>>])

\* fetchedActivities.forEach over positions lo..hi, left to right
RECURSIVE GroupRange(_, _, _, _)
GroupRange(acts, lo, hi, map) ==
    IF lo > hi THEN map
    ELSE IF lo = hi THEN GroupStep(map, acts[lo])
    ELSE LET mid  == (lo + hi) \div 2
             left == GroupRange(acts, lo, mid, map)
         IN  IF Len(left) >= 0       \* the left half is evaluated first
             THEN GroupRange(acts, mid + 1, hi, left)
             ELSE left

GroupByDate(acts) == GroupRange(acts, 1, Len(acts), <<>>)

(***************************************************************************)
(* fetchStravaData (App.tsx:56-159).                                       *)
(***************************************************************************)
Init ==
    /\ tz \in TZOffsets
    /\ accessToken \in BOOLEAN
    /\ pc = "init"
    /\ loading = TRUE
    /\ error = Null
    /\ athleteName = ""
    /\ miles = Null
    /\ runCount = Null
    /\ activityDays = <<>>
    /\ allActivities = <<>>
    /\ athleteId = Null
    /\ fetchedActivities = <<>>
    /\ page = 0
    /\ requests = <<>>
    /\ responses = <<>>
    /\ tpc = "idle"
    /\ weekStart = Null
    /\ weekNumber = 0
    /\ weeks = <<>>

\* Catch without the finally block: loading is not cleared
CatchNoFinally(message) ==
    /\ error' = message
    /\ loading' = loading
    /\ pc' = "done"

\* catch (err) { setError(...) } finally { setLoading(false) }
Catch(message) ==
    /\ error' = message
    /\ loading' = FALSE
    /\ pc' = "done"

\* lines 132-152 and the finally block, after the pagination loop
Finish(fetched) ==
    /\ allActivities' = fetched
    /\ activityDays' = GroupByDate(fetched)
    /\ loading' = FALSE
    /\ pc' = "done"

Request(kind, p) == requests' = Append(requests, [kind |-> kind, page |-> p])

Respond(outcome, start, len) ==
    responses' = Append(responses, [outcome |-> outcome, start |-> start, len |-> len])

\* lines 57-63: the token check
NoToken ==
    /\ pc = "init"
    /\ ~accessToken
    /\ error' = "Please add your Strava access token to .env"
    /\ loading' = FALSE
    /\ pc' = "done"
    /\ UNCHANGED <<tz, accessToken, athleteName, miles, runCount, activityDays,
                   allActivities, athleteId, fetchedActivities, page, requests,
                   responses>>
    /\ UNCHANGED trackerVars

\* line 67: the athlete request is issued
Start ==
    /\ pc = "init"
    /\ accessToken
    /\ Request("athlete", 0)
    /\ pc' = "athlete_fetch"
    /\ UNCHANGED <<tz, accessToken, loading, error, athleteName, miles, runCount,
                   activityDays, allActivities, athleteId, fetchedActivities, page,
                   responses>>
    /\ UNCHANGED trackerVars

\* lines 67-75: the athlete request settles
AthleteFetch ==
    /\ pc = "athlete_fetch"
    /\ \E outcome \in FetchOutcomes :
        CASE outcome = "reject" ->
                /\ Respond("reject", 0, 0)
                /\ Catch("Failed to fetch")
          [] outcome = "notOk" ->
                /\ Respond("notOk", 0, 0)
                /\ Catch("Failed to fetch athlete data")
          [] outcome = "ok" ->
                /\ pc' = "athlete_json"
                /\ UNCHANGED <<responses, error, loading>>
    /\ UNCHANGED <<tz, accessToken, athleteName, miles, runCount, activityDays,
                   allActivities, athleteId, fetchedActivities, page, requests>>
    /\ UNCHANGED trackerVars

\* lines 77-88: the athlete body is decoded, the stats request is issued
AthleteJson ==
    /\ pc = "athlete_json"
    /\ \/ /\ Respond("badJson", 0, 0)
          /\ Catch("Unexpected token < in JSON")
          /\ UNCHANGED <<athleteName, athleteId, requests>>
       \/ \E athlete \in Athletes :
          /\ Respond("ok", 0, 0)
          /\ athleteName' = athlete.firstname
          /\ athleteId' = athlete.id
          /\ Request("stats", 0)
          /\ pc' = "stats_fetch"
          /\ UNCHANGED <<error, loading>>
    /\ UNCHANGED <<tz, accessToken, miles, runCount, activityDays, allActivities,
                   fetchedActivities, page>>
    /\ UNCHANGED trackerVars

\* lines 81-92: the stats request settles
StatsFetch ==
    /\ pc = "stats_fetch"
    /\ \E outcome \in FetchOutcomes :
        CASE outcome = "reject" ->
                /\ Respond("reject", 0, 0)
                /\ Catch("Failed to fetch")
          [] outcome = "notOk" ->
                /\ Respond("notOk", 0, 0)
                /\ Catch("Failed to fetch stats")
          [] outcome = "ok" ->
                /\ pc' = "stats_json"
                /\ UNCHANGED <<responses, error, loading>>
    /\ UNCHANGED <<tz, accessToken, athleteName, miles, runCount, activityDays,
                   allActivities, athleteId, fetchedActivities, page, requests>>
    /\ UNCHANGED trackerVars

\* lines 94-118: the stats body is decoded, page 1 is requested
StatsJson ==
    /\ pc = "stats_json"
    /\ \/ /\ Respond("badJson", 0, 0)
          /\ Catch("Unexpected token < in JSON")
          /\ UNCHANGED <<miles, runCount, fetchedActivities, page, requests>>
       \/ \E totals \in StatsTotals :
          /\ Respond("ok", 0, 0)
          /\ miles' = MilesOf(totals.distance)
          /\ runCount' = totals.count
          /\ fetchedActivities' = <<>>
          /\ page' = 1
          /\ Request("activities", 1)
          /\ pc' = "page_fetch"
          /\ UNCHANGED <<error, loading>>
    /\ UNCHANGED <<tz, accessToken, athleteName, activityDays, allActivities,
                   athleteId>>
    /\ UNCHANGED trackerVars

\* lines 111-122: a page request settles
PageFetch ==
    /\ pc = "page_fetch"
    /\ \E outcome \in FetchOutcomes :
        CASE outcome = "reject" ->
                /\ Respond("reject", 0, 0)
                /\ Catch("Failed to fetch")
                /\ UNCHANGED <<allActivities, activityDays>>
          [] outcome = "notOk" ->
                /\ Respond("notOk", 0, 0)
                /\ Finish(fetchedActivities)
                /\ UNCHANGED error
          [] outcome = "ok" ->
                /\ pc' = "page_json"
                /\ UNCHANGED <<responses, error, loading, allActivities, activityDays>>
    /\ UNCHANGED <<tz, accessToken, athleteName, miles, runCount, athleteId,
                   fetchedActivities, page, requests>>
    /\ UNCHANGED trackerVars

\* what the server may answer for page p: at most perPage activities (the API
\* caps a page at per_page), and nothing beyond page MaxPages
PageChoices(p) ==
    {[start |-> 0, len |-> 0]} \cup
    (IF p <= MaxPages
     THEN [start : PageStarts, len : ShortLens \cup {perPage}]
     ELSE {})

\* NextPageWanted without the short-page break: only an empty page ends the loop
NextPageWantedUnlessEmpty(len) == len > 0

\* line 128, negated: the loop goes on to the next page
NextPageWanted(len) == ~(len < perPage)

\* lines 124-129 and, when the loop ends, 132-158
PageJson ==
    /\ pc = "page_json"
    /\ \/ /\ Respond("badJson", 0, 0)
          /\ Catch("Unexpected token < in JSON")
          /\ UNCHANGED <<allActivities, activityDays, fetchedActivities, page, requests>>
       \/ \E body \in PageChoices(page) :
          /\ Respond("ok", body.start, body.len)
          /\ LET activities == PageBody(body.start, body.len, page, tz)
                 fetched    == fetchedActivities \o activities
             IN  IF Len(activities) = 0
                 THEN /\ Finish(fetchedActivities)
                      /\ UNCHANGED <<fetchedActivities, page, requests, error>>
                 ELSE /\ fetchedActivities' = fetched
                      /\ IF NextPageWanted(Len(activities))
                         THEN /\ page' = page + 1
                              /\ Request("activities", page + 1)
                              /\ pc' = "page_fetch"
                              /\ UNCHANGED <<allActivities, activityDays, loading, error>>
                         ELSE /\ Finish(fetched)
                              /\ UNCHANGED <<page, requests, error>>
    /\ UNCHANGED <<tz, accessToken, athleteName, miles, runCount, athleteId>>
    /\ UNCHANGED trackerVars

(***************************************************************************)
(* App's render (App.tsx:164-220).                                         *)
(***************************************************************************)
View ==
    IF loading THEN "loader"
    ELSE IF error # Null /\ error # "" THEN "error"
    ELSE "dashboard"

(***************************************************************************)
(* TrainingTracker (App.tsx:227-374).                                      *)
(***************************************************************************)
\* new Date(2025, 11, 1)
trainingStart(zone) == NewDate(2025, 11, 1, zone)

\* new Date(2026, 3, 30)
trainingEnd(zone) == NewDate(2026, 3, 30, zone)

\* getWeekStart without the Monday adjustment: the Sunday on or before date
getWeekStartSunday(date, zone) ==
    LET day  == getDay(date, zone)
        diff == getDate(date, zone) - day
    IN  setDate(date, diff, zone)

\* the Monday of the week containing date
getWeekStart(date, zone) ==
    LET day  == getDay(date, zone)
        diff == getDate(date, zone) - day + (IF day = 0 THEN -6 ELSE 1)
    IN  setDate(date, diff, zone)

Max(a, b) == IF a >= b THEN a ELSE b

\* getWeekGoal without the floor of 10 miles in the taper
getWeekGoalNoFloor(weekNum) ==
    IF weekNum <= 4
    THEN [goal |-> 10 + (weekNum - 1), phase |-> "Base Building"]
    ELSE IF weekNum <= 8
    THEN [goal |-> 14 + (weekNum - 5), phase |-> "Ramp Up"]
    ELSE IF weekNum <= 13
    THEN [goal |-> 18 + (weekNum - 9), phase |-> "Building"]
    ELSE IF weekNum <= 17
    THEN [goal |-> 22 + (weekNum - 13), phase |-> "Peak"]
    ELSE LET taperWeek == weekNum - 17
         IN  [goal |-> 25 - (taperWeek * 4),
              phase |-> IF taperWeek >= 3 THEN "<U+1F3C1> Race Week" ELSE "Taper"]

getWeekGoal(weekNum) ==
    IF weekNum <= 4
    THEN [goal |-> 10 + (weekNum - 1), phase |-> "Base Building"]
    ELSE IF weekNum <= 8
    THEN [goal |-> 14 + (weekNum - 5), phase |-> "Ramp Up"]
    ELSE IF weekNum <= 13
    THEN [goal |-> 18 + (weekNum - 9), phase |-> "Building"]
    ELSE IF weekNum <= 17
    THEN [goal |-> 22 + (weekNum - 13), phase |-> "Peak"]
    ELSE LET taperWeek  == weekNum - 17
             taperMiles == Max(10, 25 - (taperWeek * 4))
         IN  [goal |-> taperMiles,
              phase |-> IF taperWeek >= 3 THEN "<U+1F3C1> Race Week" ELSE "Taper"]

\* WeekEndOf with 7 days added instead of 6: the week runs into the next Monday
WeekEndOfNextMonday(ws, zone) ==
    setHoursEndOfDay(setDate(ws, getDate(ws, zone) + 7, zone), zone)

\* weekEnd: weekStart + 6 days, at 23:59:59.999
WeekEndOf(ws, zone) ==
    setHoursEndOfDay(setDate(ws, getDate(ws, zone) + 6, zone), zone)

\* InWeek with the end of the week excluded (< instead of <=)
InWeekBeforeEnd(activity, ws, we) ==
    IF activity.type # "Run" THEN FALSE
    ELSE LET activityDate == ParseISO(activity.start_date)
         IN  DateLE(ws, activityDate) /\ DateLT(activityDate, we)

\* the predicate of activities.filter
InWeek(activity, ws, we) ==
    IF activity.type # "Run" THEN FALSE
    ELSE LET activityDate == ParseISO(activity.start_date)
         IN  DateLE(ws, activityDate) /\ DateLE(activityDate, we)

\* weekRuns.reduce((sum, run) => sum + run.distance * 0.000621371, 0)
RECURSIVE SumMiles(_, _, _, _)
SumMiles(runs, lo, hi, sum) ==
    IF lo > hi THEN sum
    ELSE IF lo = hi THEN AddMiles(sum, MilesOf(runs[lo].distance))
    ELSE LET mid  == (lo + hi) \div 2
             left == SumMiles(runs, lo, mid, sum)
         IN  IF left.hi >= 0         \* the left half is evaluated first
             THEN SumMiles(runs, mid + 1, hi, left)
             ELSE left

\* the body of the while loop, lines 269-292
WeekOf(activities, ws, num, zone) ==
    LET weekEnd  == WeekEndOf(ws, zone)
        weekRuns == SelectSeq(activities, LAMBDA a : InWeek(a, ws, weekEnd))
        g        == getWeekGoal(num)
    IN  [weekNumber |-> num,
         startDate  |-> ws,
         endDate    |-> weekEnd,
         runs       |-> weekRuns,
         totalMiles |-> SumMiles(weekRuns, 1, Len(weekRuns), ZeroMiles),
         totalRuns  |-> Len(weekRuns),
         goalMiles  |-> g.goal,
         phase      |-> g.phase]

\* lines 294-295
NextWeekStart(ws, zone) == setDate(ws, getDate(ws, zone) + 7, zone)

\* hitGoal on the displayed mileage, totalMiles.toFixed(1)
hitGoalDisplayed(week) == (week.totalMiles.hi + 500) \div 1000 >= week.goalMiles * 10

\* line 321: week.totalMiles >= week.goalMiles
hitGoal(week) == week.totalMiles.hi >= week.goalMiles * GoalUnit

\* lines 264-266: the dashboard is rendered, the tracker starts
TrackerBegin ==
    /\ View = "dashboard"
    /\ tpc = "idle"
    /\ weekStart' = getWeekStart(trainingStart(tz), tz)
    /\ weekNumber' = 1
    /\ weeks' = <<>>
    /\ tpc' = "loop"
    /\ UNCHANGED <<tz, accessToken>>
    /\ UNCHANGED fetchVars

\* lines 268-297: one iteration of the while loop
TrackerWeek ==
    /\ tpc = "loop"
    /\ DateLE(weekStart, trainingEnd(tz))
    /\ weeks' = Append(weeks, WeekOf(allActivities, weekStart, weekNumber, tz))
    /\ weekStart' = NextWeekStart(weekStart, tz)
    /\ weekNumber' = weekNumber + 1
    /\ UNCHANGED <<tz, accessToken, tpc>>
    /\ UNCHANGED fetchVars

\* line 268: the loop condition fails
TrackerEnd ==
    /\ tpc = "loop"
    /\ ~DateLE(weekStart, trainingEnd(tz))
    /\ tpc' = "rendered"
    /\ UNCHANGED <<tz, accessToken, weekStart, weekNumber, weeks>>
    /\ UNCHANGED fetchVars

Next ==
    \/ NoToken
    \/ Start
    \/ AthleteFetch
    \/ AthleteJson
    \/ StatsFetch
    \/ StatsJson
    \/ PageFetch
    \/ PageJson
    \/ TrackerBegin
    \/ TrackerWeek
    \/ TrackerEnd

Spec == Init /\ [][Next]_vars

(***************************************************************************)
(* Properties.                                                             *)
(***************************************************************************)
\* positions, in requests, of the activity-list page requests
PageReqIdx == {i \in 1..Len(requests) : requests[i].kind = "activities"}

\* request i has been answered (response i answers request i)
Answered(i) == i <= Len(responses)

FullPageAt(i) ==
    Answered(i) /\ responses[i].outcome = "ok" /\ responses[i].len = perPage

\* the activities of the first n pages, as the server returned them
RECURSIVE PagesUpTo(_)
PagesUpTo(n) ==
    IF n = 0 THEN <<>>
    ELSE LET i == CHOOSE j \in PageReqIdx : requests[j].page = n
         IN  PagesUpTo(n - 1) \o
             (IF Answered(i) /\ responses[i].outcome = "ok"
              THEN PageBody(responses[i].start, responses[i].len, n, tz)
              ELSE <<>>)

PagesRequested == Cardinality(PageReqIdx)

\* C9: a failed athlete-profile or stats request ends the run with error set and
\* loading false; no activity page is requested, the activity list and the day
\* index stay empty, the error panel is shown and the tracker is never rendered;
\* after a failed profile request no stats request is issued.
C9_ProfileOrStatsFailureAborts ==
    \A i \in 1..Len(responses) :
        (requests[i].kind \in {"athlete", "stats"} /\ responses[i].outcome # "ok") =>
            /\ pc = "done"
            /\ error \notin {Null, ""}
            /\ loading = FALSE
            /\ PageReqIdx = {}
            /\ allActivities = <<>>
            /\ activityDays = <<>>
            /\ View = "error"
            /\ tpc = "idle"
            /\ requests[i].kind = "athlete" =>
                   \A j \in 1..Len(requests) : requests[j].kind # "stats"

C9_Witness ==
    /\ pc = "done"
    /\ Len(responses) = 2
    /\ requests[2].kind = "stats"
    /\ responses[2].outcome = "badJson"
    /\ View = "error"

\* C8: pages are requested as 1, 2, 3, ... with at most one request in flight;
\* page n+1 is requested only after page n returned exactly perPage activities;
\* nothing is requested after an empty, short or failed page; the accumulated
\* list is the concatenation, in page order, of the pages returned.
C8_SequentialPagination ==
    /\ Len(requests) - Len(responses) \in {0, 1}
    /\ (Len(requests) - Len(responses) = 1) <=> (pc \notin {"init", "done"})
    /\ \A i \in PageReqIdx :
        /\ requests[i].page = Cardinality({j \in PageReqIdx : j <= i})
        /\ requests[i].page > 1 => (i - 1 \in PageReqIdx /\ FullPageAt(i - 1))
        /\ (Answered(i) /\ ~FullPageAt(i)) => i = Len(requests)
    /\ fetchedActivities = PagesUpTo(PagesRequested)

C8_Witness ==
    /\ pc = "done"
    /\ PagesRequested = 2
    /\ responses[Len(responses)].outcome = "ok"
    /\ Len(fetchedActivities) = perPage + 3

\* C1: a failed page request (non-success response, rejected request or a body
\* that cannot be decoded) is not fatal: the run ends with no error, and the
\* pages returned before it are the activity list and the input of the day index.
C1_PageFailureIsSilent ==
    \A i \in PageReqIdx :
        (Answered(i) /\ responses[i].outcome \in {"notOk", "reject", "badJson"}) =>
            /\ pc = "done"
            /\ error = Null
            /\ View = "dashboard"
            /\ allActivities = PagesUpTo(requests[i].page - 1)
            /\ activityDays = GroupByDate(PagesUpTo(requests[i].page - 1))

\* the date keys of a list of activities
KeysOf(acts) == {DateKey(acts[i]) : i \in 1..Len(acts)}

RECURSIVE SumCounts(_, _)
SumCounts(map, n) == IF n = 0 THEN 0 ELSE SumCounts(map, n - 1) + map[n].count

\* C7: the day index has exactly one entry per distinct date key of the activity
\* list; an entry's count is the number of activities with its key, its types
\* holds each distinct type of those activities exactly once, and the counts
\* add up to the number of activities.
C7_DayIndex ==
    LET acts   == allActivities
        days   == activityDays
        At(k)  == {i \in 1..Len(acts) : DateKey(acts[i]) = k}
    IN  /\ \A k \in KeysOf(acts) :
            Cardinality({j \in 1..Len(days) : days[j].date = k}) = 1
        /\ \A j \in 1..Len(days) :
            /\ days[j].date \in KeysOf(acts)
            /\ days[j].count = Cardinality(At(days[j].date))
            /\ {days[j].types[t] : t \in 1..Len(days[j].types)}
                   = {acts[i].type : i \in At(days[j].date)}
            /\ \A t, u \in 1..Len(days[j].types) :
                   days[j].types[t] = days[j].types[u] => t = u
        /\ SumCounts(days, Len(days)) = Len(acts)

C7_Witness ==
    /\ pc = "done"
    /\ Len(allActivities) > perPage
    /\ \E j \in 1..Len(activityDays) :
        activityDays[j].count > Len(activityDays[j].types) /\ Len(activityDays[j].types) = 2

\* the instant an activity started
StartOf(a) == ParseISO(a.start_date)

\* positions of the Run activities that started within [from, to]
RunsWithin(acts, from, to) ==
    {i \in 1..Len(acts) :
        /\ acts[i].type = "Run"
        /\ ~DateLT(StartOf(acts[i]), from)
        /\ ~DateLT(to, StartOf(acts[i]))}

\* C5: a week's runs are exactly the activities of type "Run" that started within
\* [startDate, endDate], both ends included, in the order of the activity list,
\* and totalRuns is their number.
C5_WeekRuns ==
    \A n \in 1..Len(weeks) :
        LET w == weeks[n]
            I == RunsWithin(allActivities, w.startDate, w.endDate)
        IN  /\ {w.runs[k] : k \in 1..Len(w.runs)} = {allActivities[i] : i \in I}
            /\ Len(w.runs) = Cardinality(I)
            /\ w.totalRuns = Cardinality(I)
            /\ \A k \in 1..(Len(w.runs) - 1) : w.runs[k].id < w.runs[k + 1].id

C5_Witness ==
    /\ Len(weeks) >= 1
    /\ \E k \in 1..Len(weeks[1].runs) : StartOf(weeks[1].runs[k]) = weeks[1].startDate
    /\ \E k \in 1..Len(weeks[1].runs) : StartOf(weeks[1].runs[k]) = weeks[1].endDate
    /\ \E i \in 1..Len(allActivities) :
        /\ allActivities[i].type # "Run"
        /\ DateLE(weeks[1].startDate, StartOf(allActivities[i]))
        /\ DateLE(StartOf(allActivities[i]), weeks[1].endDate)
    /\ \E i \in 1..Len(allActivities) :
        /\ allActivities[i].type = "Run"
        /\ DateLT(StartOf(allActivities[i]), weeks[1].startDate)
    /\ weeks[1].totalRuns > 2

\* a Date moved by whole local days, at ms into the local day
LocalShift(t, days, ms) ==
    FromLocal([day |-> ToLocal(t, tz).day + days, ms |-> ms], tz)

\* C6: the weeks are numbered 1..N without gaps; week 1 starts at the midnight of
\* the Monday on or before the training start and contains it; every week ends 6
\* days after its start at 23:59:59.999; each week starts 7 days after the one
\* before; every week starts on or before the training end, and the week after
\* the last would start after it.
C6_WeekSequence ==
    /\ \A n \in 1..Len(weeks) :
        /\ weeks[n].weekNumber = n
        /\ ToLocal(weeks[n].startDate, tz).ms = 0
        /\ weeks[n].endDate = LocalShift(weeks[n].startDate, 6, EndOfDayMs)
        /\ DateLE(weeks[n].startDate, trainingEnd(tz))
        /\ n > 1 => weeks[n].startDate = LocalShift(weeks[n - 1].startDate, 7, 0)
    /\ Len(weeks) >= 1 =>
        /\ (ToLocal(weeks[1].startDate, tz).day + 4) % 7 = 1
        /\ DateLE(weeks[1].startDate, trainingStart(tz))
        /\ DateLE(trainingStart(tz), weeks[1].endDate)
        /\ CivilFromDays(ToLocal(weeks[1].startDate, tz).day) = <<2025, 12, 1>>
    /\ tpc = "rendered" =>
        /\ Len(weeks) >= 1
        /\ DateLT(trainingEnd(tz), LocalShift(weeks[Len(weeks)].startDate, 7, 0))

C6_Witness ==
    /\ tpc = "rendered"
    /\ Len(weeks) = 22
    /\ CivilFromDays(ToLocal(weeks[22].startDate, tz).day) = <<2026, 4, 27>>

RECURSIVE SumRuns(_, _)
SumRuns(ws, n) == IF n = 0 THEN 0 ELSE SumRuns(ws, n - 1) + ws[n].totalRuns

\* C10: no activity is in the runs of two weeks, so the total of totalRuns over
\* the weeks is the number of Run activities that started within [start of week
\* 1, end of the last week], and never exceeds the number of Run activities.
C10_WeeksDisjoint ==
    /\ \A m, n \in 1..Len(weeks) :
        m # n => {weeks[m].runs[k].id : k \in 1..Len(weeks[m].runs)} \cap
                 {weeks[n].runs[k].id : k \in 1..Len(weeks[n].runs)} = {}
    /\ Len(weeks) >= 1 =>
        /\ SumRuns(weeks, Len(weeks)) =
             Cardinality(RunsWithin(allActivities, weeks[1].startDate,
                                    weeks[Len(weeks)].endDate))
        /\ SumRuns(weeks, Len(weeks)) <=
             Cardinality({i \in 1..Len(allActivities) : allActivities[i].type = "Run"})

C10_Witness ==
    /\ tpc = "rendered"
    /\ weeks[1].totalRuns > 0
    /\ weeks[2].totalRuns > 0
    /\ weeks[22].totalRuns > 0
    /\ SumRuns(weeks, Len(weeks)) <
         Cardinality({i \in 1..Len(allActivities) : allActivities[i].type = "Run"})

\* toFixed(1) of a mileage, in tenths of a mile
RoundTenths(m) == (m.hi + 500) \div 1000

\* the activity list is one Run of 16093.4 m started on the Monday of week 1
OneRunOnPlanMonday ==
    /\ Len(weeks) >= 1
    /\ Len(allActivities) = 1
    /\ allActivities[1].type = "Run"
    /\ allActivities[1].distance = 160934
    /\ DateLE(weeks[1].startDate, StartOf(allActivities[1]))
    /\ DateLT(StartOf(allActivities[1]), LocalShift(weeks[1].startDate, 1, 0))

WeekGoalIs(n, goal, phase) ==
    Len(weeks) >= n => <<weeks[n].goalMiles, weeks[n].phase>> = <<goal, phase>>

\* C3: weekGoal(4) = (13, "Base Building"), weekGoal(5) = (14, "Ramp Up"),
\* weekGoal(13) = (22, "Building"), weekGoal(14) = (22, "Peak"), weekGoal(17) =
\* (25, "Peak"), weekGoal(18) = (21, "Taper"), weekGoal(20) = (13, "Taper") and
\* weekGoal(21) = (10, "Race Week").
C3_GoalExamples ==
    /\ WeekGoalIs(4, 13, "Base Building")
    /\ WeekGoalIs(5, 14, "Ramp Up")
    /\ WeekGoalIs(13, 22, "Building")
    /\ WeekGoalIs(14, 22, "Peak")
    /\ WeekGoalIs(17, 25, "Peak")
    /\ WeekGoalIs(18, 21, "Taper")
    /\ WeekGoalIs(20, 13, "Taper")
    /\ WeekGoalIs(21, 10, "Race Week")

\* the piecewise table of the plan, with raceLabel as the label of race week
GoalTable(n, raceLabel) ==
    CASE n \in 1..4   -> <<10 + (n - 1), "Base Building">>
      [] n \in 5..8   -> <<14 + (n - 5), "Ramp Up">>
      [] n \in 9..13  -> <<18 + (n - 9), "Building">>
      [] n \in 14..17 -> <<22 + (n - 13), "Peak">>
      [] n >= 18      -> <<IF 25 - 4 * (n - 17) < 10 THEN 10 ELSE 25 - 4 * (n - 17),
                           IF n - 17 >= 3 THEN raceLabel ELSE "Taper">>

FollowsTable(raceLabel) ==
    /\ \A n \in 1..MaxWeekNum :
        <<getWeekGoal(n).goal, getWeekGoal(n).phase>> = GoalTable(n, raceLabel)
    /\ \A n \in 1..Len(weeks) :
        <<weeks[n].goalMiles, weeks[n].phase>> = GoalTable(n, raceLabel)

====
